---- MODULE Spec2Model ----
(***************************************************************************)
(* Customer Churn Prediction: the Streamlit script app.py as a state       *)
(* machine.  One script run (a rerun of app.py from top to bottom) is one  *)
(* action.  Text is modelled as sequences of one-character strings so that *)
(* Python's substring test and the CSV round trip are computed, not        *)
(* assumed.  Numbers are fixed-point, in hundredths (45.0 is 4500).        *)
(***************************************************************************)
EXTENDS Integers, Sequences, FiniteSets, TLC

\* ------------------------------------------------------------------ bounds
\* Largest number of data rows the history file is allowed to grow to.
MaxRows == 2

\* Largest number of predictions one of the concurrent sessions makes.
MaxClicks == 2

\* -------------------------------------------------------------------- text
\* The keywords the input form looks for in a column name.
kwAge == <<"A","g","e">>
kwTenure == <<"T","e","n","u","r","e">>
kwUsage == <<"U","s","a","g","e">>
kwSupport == <<"S","u","p","p","o","r","t">>
kwDelay == <<"D","e","l","a","y">>
kwSpend == <<"S","p","e","n","d">>
kwInteraction == <<"I","n","t","e","r","a","c","t","i","o","n">>

\* The two result columns of a history row.
colPrediction == <<"P","r","e","d","i","c","t","i","o","n">>
colChurnProbability ==
    <<"C","h","u","r","n","_","P","r","o","b","a","b","i","l","i","t","y">>

\* Column names a model bundle may declare.
nCustomerID == <<"C","u","s","t","o","m","e","r","I","D">>
nUsageFrequency == kwUsage \o <<" ","F","r","e","q","u","e","n","c","y">>
nSupportCalls == kwSupport \o <<" ","C","a","l","l","s">>
nPaymentDelay == <<"P","a","y","m","e","n","t"," ">> \o kwDelay
nTotalSpend == <<"T","o","t","a","l"," ">> \o kwSpend
nLastInteraction == <<"L","a","s","t"," ">> \o kwInteraction
nAverage == <<"A","v","e","r","a","g","e">>

\* Python's `needle in hay` on strings: needle is a contiguous substring.
Contains(needle, hay) ==
    \E i \in 0..(Len(hay) - Len(needle)) :
        SubSeq(hay, i + 1, i + Len(needle)) = needle

Digits == <<"0","1","2","3","4","5","6","7","8","9">>

IsDigit(ch) == ch \in {"0","1","2","3","4","5","6","7","8","9"}

DigitVal(ch) ==
    CASE ch = "0" -> 0 [] ch = "1" -> 1 [] ch = "2" -> 2 [] ch = "3" -> 3
      [] ch = "4" -> 4 [] ch = "5" -> 5 [] ch = "6" -> 6 [] ch = "7" -> 7
      [] ch = "8" -> 8 [] ch = "9" -> 9

\* Decimal text of a natural number.
RECURSIVE DigitStr(_)
DigitStr(n) ==
    IF n < 10 THEN <<Digits[n + 1]>>
    ELSE DigitStr(n \div 10) \o <<Digits[(n % 10) + 1]>>

\* Value of a non-empty string of digits.
RECURSIVE DigitsVal(_)
DigitsVal(s) ==
    IF Len(s) = 0 THEN 0
    ELSE 10 * DigitsVal(SubSeq(s, 1, Len(s) - 1)) + DigitVal(s[Len(s)])

Abs(v) == IF v < 0 THEN -v ELSE v

\* ----------------------------------------------------------- Python values
\* A Python number: its type and its value in hundredths.
PyFloat(v) == [t |-> "float", v |-> v]

PyInt(n) == [t |-> "int", v |-> 100 * n]

\* A Python dict keeps insertion order: a sequence of <<key, value>> pairs
\* with distinct keys.
DictKeys(d) == [i \in 1..Len(d) |-> d[i][1]]

DictHas(d, k) == \E i \in 1..Len(d) : d[i][1] = k

DictGet(d, k) == d[CHOOSE i \in 1..Len(d) : d[i][1] = k][2]

\* d[k] = x: overwrite in place when the key exists, else insert at the end.
DictSet(d, k, x) ==
    IF DictHas(d, k)
    THEN [i \in 1..Len(d) |-> IF d[i][1] = k THEN <<k, x>> ELSE d[i]]
    ELSE Append(d, <<k, x>>)

\* --------------------------------------------------------------- DataFrame
\* A pandas DataFrame: column labels, one dtype per column, and the rows,
\* each a sequence of values (hundredths) aligned with the columns.
DtypeOf(x) == IF x.t = "int" THEN "int64" ELSE "float64"

\* pd.DataFrame([row]) for a dict row: the columns are the keys in the
\* dict's insertion order.
DataFrameOfDict(row) ==
    [columns |-> DictKeys(row),
     dtypes  |-> [i \in 1..Len(row) |-> DtypeOf(row[i][2])],
     data    |-> << [i \in 1..Len(row) |-> row[i][2].v] >>]

\* pd.DataFrame([list], columns=cols) for one list of Python numbers.
DataFrameOfList(list, cols) ==
    [columns |-> cols,
     dtypes  |-> [i \in 1..Len(list) |-> DtypeOf(list[i])],
     data    |-> << [i \in 1..Len(list) |-> list[i].v] >>]

ColIndex(df, name) == CHOOSE j \in 1..Len(df.columns) : df.columns[j] = name

Promote(a, b) == IF a = b THEN a ELSE "float64"

\* A concat with its arguments swapped: pd.concat([new, hist]).
Concat_NewFirst(a, b) ==
    [columns |-> a.columns,
     dtypes  |-> [j \in 1..Len(a.columns) |->
                    Promote(a.dtypes[j], b.dtypes[ColIndex(b, a.columns[j])])],
     data    |-> [r \in 1..Len(b.data) |->
                    [j \in 1..Len(a.columns) |->
                        b.data[r][ColIndex(b, a.columns[j])]]]
                 \o a.data]

\* pd.concat([a, b], ignore_index=True) for two frames with the same column
\* set: b's values are aligned to a's columns by label, not by position, and
\* each column takes the common dtype.  (Frames whose column sets differ are
\* outside the model: no run of the program with one bundle produces them.)
Concat(a, b) ==
    [columns |-> a.columns,
     dtypes  |-> [j \in 1..Len(a.columns) |->
                    Promote(a.dtypes[j], b.dtypes[ColIndex(b, a.columns[j])])],
     data    |-> a.data \o
                 [r \in 1..Len(b.data) |->
                    [j \in 1..Len(a.columns) |->
                        b.data[r][ColIndex(b, a.columns[j])]]]]

\* The frame with no columns and no rows.
NoFrame == [columns |-> <<>>, dtypes |-> <<>>, data |-> <<>>]

\* Row i of a frame as a set of <<column, value>> fields.
RowFields(df, i) == {<<df.columns[j], df.data[i][j]>> : j \in 1..Len(df.columns)}

\* The fields of a dict row, by value.
DictFields(row) == {<<row[i][1], row[i][2].v>> : i \in 1..Len(row)}

\* --------------------------------------------------------------------- CSV
\* A to_csv that keeps one fraction digit (float_format="%.1f").
FloatRepr_OneDigit(v) ==
    (IF v < 0 THEN <<"-">> ELSE <<>>) \o DigitStr(Abs(v) \div 100)
    \o <<".", Digits[((Abs(v) % 100) \div 10) + 1]>>

\* repr() of a Python float, as to_csv writes a float64 cell: sign, integer
\* part, a point, and the shortest fraction ("45.0", "0.82", "-2.5").
FloatRepr(v) ==
    LET ip == Abs(v) \div 100
        fp == Abs(v) % 100
        frac == IF fp % 10 = 0 THEN <<Digits[(fp \div 10) + 1]>>
                ELSE <<Digits[(fp \div 10) + 1], Digits[(fp % 10) + 1]>>
    IN  (IF v < 0 THEN <<"-">> ELSE <<>>) \o DigitStr(ip) \o <<".">> \o frac

\* An int64 cell: sign and digits only.
IntRepr(v) ==
    (IF v < 0 THEN <<"-">> ELSE <<>>) \o DigitStr(Abs(v) \div 100)

FormatCell(dtype, v) == IF dtype = "int64" THEN IntRepr(v) ELSE FloatRepr(v)

\* A file on disk: absent, or a header line and data lines of text cells.
\* A file of zero bytes exists and has no header.
Absent == [exists |-> FALSE, header |-> <<>>, lines |-> <<>>]

ZeroBytes == [exists |-> TRUE, header |-> <<>>, lines |-> <<>>]

\* df.to_csv(path, index=False): the header is the column labels, then one
\* line per row, each cell formatted by its column's dtype.
ToCsv(df) ==
    [exists |-> TRUE,
     header |-> df.columns,
     lines  |-> [r \in 1..Len(df.data) |->
                    [j \in 1..Len(df.columns) |->
                        FormatCell(df.dtypes[j], df.data[r][j])]]]

Unsigned(text) == IF Len(text) > 0 /\ text[1] = "-" THEN Tail(text) ELSE text

IsIntText(text) ==
    LET u == Unsigned(text)
    IN  Len(u) > 0 /\ \A i \in 1..Len(u) : IsDigit(u[i])

PointAt(u) == CHOOSE i \in 1..Len(u) : u[i] = "."

IsFloatText(text) ==
    LET u == Unsigned(text)
    IN  /\ \E i \in 1..Len(u) : u[i] = "."
        /\ IsIntText(SubSeq(u, 1, PointAt(u) - 1))
        /\ IsIntText(SubSeq(u, PointAt(u) + 1, Len(u)))

\* The number a numeric cell denotes, in hundredths (fraction digits beyond
\* the second are below the model's precision).
ParseCell(text) ==
    LET u == Unsigned(text)
        sign == IF u = text THEN 1 ELSE -1
    IN  IF IsIntText(text) THEN sign * 100 * DigitsVal(u)
        ELSE LET p == PointAt(u)
                 frac == SubSeq(u, p + 1, Len(u))
                 f1 == DigitVal(frac[1])
                 f2 == IF Len(frac) > 1 THEN DigitVal(frac[2]) ELSE 0
             IN  sign * (100 * DigitsVal(SubSeq(u, 1, p - 1)) + 10 * f1 + f2)

\* read_csv infers one dtype per column from the text of all its cells.
InferDtype(cells) ==
    IF \A i \in 1..Len(cells) : IsIntText(cells[i]) THEN "int64"
    ELSE IF \A i \in 1..Len(cells) : IsIntText(cells[i]) \/ IsFloatText(cells[i])
         THEN "float64"
         ELSE "object"

\* pd.read_csv raises EmptyDataError on a file with no header line.
ReadCsvRaises(file) == file.header = <<>>

\* pd.read_csv(path) of a file with a header.
ReadCsv(file) ==
    [columns |-> file.header,
     dtypes  |-> [j \in 1..Len(file.header) |->
                    InferDtype([r \in 1..Len(file.lines) |-> file.lines[r][j]])],
     data    |-> [r \in 1..Len(file.lines) |->
                    [j \in 1..Len(file.header) |-> ParseCell(file.lines[r][j])]]]

\* -------------------------------------------------------------- the bundle
\* The objects of the pickled bundle are opaque: a kind, and the data the
\* object was fitted on.
FittedImputer == [kind |-> "num_imputer", fitted_on |-> "training data"]

FittedScaler == [kind |-> "num_scaler", fitted_on |-> "training data"]

FittedModel == [kind |-> "model", fitted_on |-> "training data"]

BundleOf(cols) ==
    [model |-> FittedModel, num_imputer |-> FittedImputer,
     num_scaler |-> FittedScaler, numeric_cols |-> cols]

\* The contents models/churn_model.pkl may have: every keyword of the form is
\* covered, and two names match no keyword ("Average" has no capital-A "Age").
Bundles ==
    { BundleOf(<<kwAge, nCustomerID>>),
      BundleOf(<<kwTenure>>),
      BundleOf(<<nUsageFrequency>>),
      BundleOf(<<nSupportCalls>>),
      BundleOf(<<nPaymentDelay>>),
      BundleOf(<<nTotalSpend>>),
      BundleOf(<<nLastInteraction>>),
      BundleOf(<<nAverage>>) }

\* pickle.load and the four assignments that follow it.
LoadBundle(saved) ==
    [model |-> saved.model, num_imputer |-> saved.num_imputer,
     num_scaler |-> saved.num_scaler, numeric_cols |-> saved.numeric_cols]

\* obj.fit_transform(X) in place of obj.transform(X): the object is refitted
\* on the request's single row.
Transform_Refit(obj, X) ==
    [out |-> [by |-> obj.kind, of |-> X],
     obj |-> [obj EXCEPT !.fitted_on = "request"]]

\* obj.transform(X): the result is opaque, known only by the object that made
\* it and the input it was made from; the object itself is left as fitted.
Transform(obj, X) == [out |-> [by |-> obj.kind, of |-> X], obj |-> obj]

\* ---------------------------------------------------------- the input form
\* A form whose Age branch passes no min_value.
NumberInputArgs_AgeNoMin(col) ==
    IF Contains(kwAge, col) THEN [has_min |-> FALSE, min_value |-> 0, value |-> 3000]
    ELSE IF Contains(kwTenure, col) THEN [has_min |-> TRUE, min_value |-> 0, value |-> 1200]
    ELSE IF Contains(kwUsage, col) THEN [has_min |-> TRUE, min_value |-> 0, value |-> 1000]
    ELSE IF Contains(kwSupport, col) THEN [has_min |-> TRUE, min_value |-> 0, value |-> 100]
    ELSE IF Contains(kwDelay, col) THEN [has_min |-> TRUE, min_value |-> 0, value |-> 0]
    ELSE IF Contains(kwSpend, col) THEN [has_min |-> TRUE, min_value |-> 0, value |-> 50000]
    ELSE IF Contains(kwInteraction, col) THEN [has_min |-> TRUE, min_value |-> 0, value |-> 700]
    ELSE [has_min |-> FALSE, min_value |-> 0, value |-> 0]

\* The arguments of st.number_input chosen for a column, by the first keyword
\* its name contains; the last branch passes no min_value.
NumberInputArgs(col) ==
    IF Contains(kwAge, col) THEN [has_min |-> TRUE, min_value |-> 0, value |-> 3000]
    ELSE IF Contains(kwTenure, col) THEN [has_min |-> TRUE, min_value |-> 0, value |-> 1200]
    ELSE IF Contains(kwUsage, col) THEN [has_min |-> TRUE, min_value |-> 0, value |-> 1000]
    ELSE IF Contains(kwSupport, col) THEN [has_min |-> TRUE, min_value |-> 0, value |-> 100]
    ELSE IF Contains(kwDelay, col) THEN [has_min |-> TRUE, min_value |-> 0, value |-> 0]
    ELSE IF Contains(kwSpend, col) THEN [has_min |-> TRUE, min_value |-> 0, value |-> 50000]
    ELSE IF Contains(kwInteraction, col) THEN [has_min |-> TRUE, min_value |-> 0, value |-> 700]
    ELSE [has_min |-> FALSE, min_value |-> 0, value |-> 0]

\* A number_input accepts what the user types unless it is below min_value.
Accepts(args, v) == args.has_min => v >= args.min_value

\* The widgets of a fresh session hold their default values.
DefaultWidgets(cols) == [i \in 1..Len(cols) |-> NumberInputArgs(cols[i]).value]

\* The loop over numeric_cols: values[col] = the widget's current number.
RECURSIVE FormValues(_, _, _)
FormValues(cols, w, n) ==
    IF n = 0 THEN <<>>
    ELSE DictSet(FormValues(cols, w, n - 1), cols[n], PyFloat(w[n]))

\* ---------------------------------------------------- the Predict handler
PyNone == [t |-> "None", v |-> 0]

HistoryPath == [path |-> "prediction_history.csv"]

\* An assembler that takes the dict's values in insertion order:
\* pd.DataFrame([list(values.values())], columns=numeric_cols).
BuildXNum_DictOrder(vals, cols) ==
    DataFrameOfList([i \in 1..Len(cols) |-> vals[i][2]], cols)

\* X_num: one row, [values[c] for c in numeric_cols], labelled numeric_cols.
BuildXNum(vals, cols) ==
    DataFrameOfList([i \in 1..Len(cols) |-> DictGet(vals, cols[i])], cols)

\* A handler that relabels the imputer's output and skips the scaled one.
BuildXFinal_FromImputed(X_num_imp, X_num_scaled, cols) ==
    [array |-> X_num_imp, columns |-> cols]

\* X_final: the scaler's output, relabelled with numeric_cols.
BuildXFinal(X_num_imp, X_num_scaled, cols) ==
    [array |-> X_num_scaled, columns |-> cols]

\* A row whose two result fields are set in the other order.
BuildRow_ProbabilityFirst(vals, pred, proba) ==
    DictSet(DictSet(vals, colChurnProbability, PyFloat(proba.v)),
            colPrediction, PyInt(pred.v \div 100))

\* row = values.copy(); row["Prediction"] = int(pred);
\* row["Churn_Probability"] = float(proba)
BuildRow(vals, pred, proba) ==
    DictSet(DictSet(vals, colPrediction, PyInt(pred.v \div 100)),
            colChurnProbability, PyFloat(proba.v))

\* hist = pd.read_csv(HISTORY_FILE); hist = pd.concat([hist, new row]).
ReadAndConcat(file, row) == Concat(ReadCsv(file), DataFrameOfDict(row))

\* The table to write: the stored table plus the new row when the file
\* exists, else the new row alone.
NewHist(file, row) ==
    IF file.exists THEN ReadAndConcat(file, row) ELSE DataFrameOfDict(row)

\* A handler that saves the history before asking for the probability.
HandlerPlan_SaveEarly(file) ==
    <<"num_imputer.transform", "num_scaler.transform", "model.predict",
      "os.path.exists">>
    \o (IF file.exists THEN <<"pd.read_csv">> ELSE <<>>)
    \o <<"to_csv", "model.predict_proba">>

\* The calls the handler makes, in program order, for a given state of the
\* history file.
HandlerPlan(file) ==
    <<"num_imputer.transform", "num_scaler.transform", "model.predict",
      "model.predict_proba", "os.path.exists">>
    \o (IF file.exists THEN <<"pd.read_csv">> ELSE <<>>)
    \o <<"to_csv">>

\* Whether a call raises in this run: the environment's fault, or read_csv on
\* a file without a header.
Raises(fn, file, fault) ==
    \/ fn = fault
    \/ fn = "pd.read_csv" /\ ReadCsvRaises(file)

\* How many calls of the plan are made: the handler has no try/except, so the
\* first call that raises is the last one made.
RECURSIVE CallsMade(_, _, _, _)
CallsMade(plan, file, fault, n) ==
    IF n >= Len(plan) THEN Len(plan)
    ELSE IF Raises(plan[n + 1], file, fault) THEN n + 1
    ELSE CallsMade(plan, file, fault, n + 1)

\* The course of one handler run: the plan, how far it got, and the call
\* whose exception ended it ("none" when every call returned).
CourseOf(plan, n, file, fault) ==
    [plan |-> plan, n |-> n,
     raised |-> IF Raises(plan[n], file, fault) THEN plan[n] ELSE "none"]

HandlerCourse(file, fault) ==
    CourseOf(HandlerPlan(file),
             CallsMade(HandlerPlan(file), file, fault, 0), file, fault)

Made(course, fn) == \E i \in 1..course.n : course.plan[i] = fn

Returned(course, fn) == Made(course, fn) /\ course.raised # fn

\* The file after a to_csv that raises: untouched (the open failed), or
\* truncated to zero bytes (opened for writing, then the write failed).
FailedWrite(file, damage) == IF damage = "truncated" THEN ZeroBytes ELSE file

\* A writer that appends its last row to whatever the file holds now
\* (to_csv(mode="a", header=False)) instead of replacing the file.
Rewrite_AppendMode(file, hist) ==
    IF file.exists
    THEN [file EXCEPT !.lines = Append(@, ToCsv(hist).lines[Len(hist.data)])]
    ELSE ToCsv(hist)

\* hist.to_csv(HISTORY_FILE, index=False): the file is replaced as a whole
\* by the table just built; what it held before plays no part.
Rewrite(file, hist) == ToCsv(hist)

\* Impute, scale, relabel: each step takes the result of the one before.
Scaled(cols, X, imp, scl) ==
    [X_num |-> X, imp |-> imp, scl |-> scl,
     X_final |-> BuildXFinal(imp.out, scl.out, cols)]

Imputed(b, X, imp) ==
    Scaled(b.numeric_cols, X, imp, Transform(b.num_scaler, imp.out))

Pipeline(vals, b) ==
    Imputed(b, BuildXNum(vals, b.numeric_cols),
            Transform(b.num_imputer, BuildXNum(vals, b.numeric_cols)))

\* The argument each call of the plan is given.
ArgOf(fn, pipe, hist) ==
    CASE fn = "num_imputer.transform" -> pipe.X_num
      [] fn = "num_scaler.transform" -> pipe.imp.out
      [] fn = "model.predict" -> pipe.X_final
      [] fn = "model.predict_proba" -> pipe.X_final
      [] fn = "to_csv" -> [frame |-> hist]
      [] OTHER -> HistoryPath

\* What the handler leaves behind, given how far it got.
HandlerResult(b, file, env, course, pipe, pred, proba, row, hist) ==
    [bundle |-> [b EXCEPT
                    !.num_imputer = IF Made(course, "num_imputer.transform")
                                    THEN pipe.imp.obj ELSE @,
                    !.num_scaler = IF Made(course, "num_scaler.transform")
                                   THEN pipe.scl.obj ELSE @],
     calls |-> [i \in 1..course.n |->
                  [fn |-> course.plan[i], arg |-> ArgOf(course.plan[i], pipe, hist)]],
     raised |-> course.raised,
     prediction_made |-> Returned(course, "model.predict_proba"),
     pred |-> pred,
     proba |-> proba,
     X_num |-> pipe.X_num,
     row |-> IF Returned(course, "model.predict_proba") THEN row ELSE <<>>,
     info |-> Returned(course, "to_csv"),
     file |-> IF Returned(course, "to_csv") THEN Rewrite(file, hist)
              ELSE IF Made(course, "to_csv") THEN FailedWrite(file, env.damage)
              ELSE file]

\* Save prediction history: build the row, then the table to write.  (The
\* table is read only when the run gets as far as a read_csv that returns.)
SaveHistory(vals, b, file, env, course, pipe, pred, proba, row) ==
    HandlerResult(b, file, env, course, pipe, pred, proba, row,
                  IF Made(course, "os.path.exists")
                     /\ (file.exists => Returned(course, "pd.read_csv"))
                  THEN NewHist(file, row) ELSE NoFrame)

Predicted(vals, b, file, env, course, pipe, pred, proba) ==
    SaveHistory(vals, b, file, env, course, pipe, pred, proba,
                BuildRow(vals, pred, proba))

Classified(vals, b, file, env, course, pipe) ==
    Predicted(vals, b, file, env, course, pipe,
              IF Returned(course, "model.predict")
              THEN PyInt(env.label) ELSE PyNone,
              IF Returned(course, "model.predict_proba")
              THEN PyFloat(env.p) ELSE PyNone)

\* The whole body of `if st.button("Predict Churn")`.  env is what the
\* environment decides in this run: which call raises (if any), what the
\* classifier returns, and what a failed write leaves on disk.
PredictChurn(vals, b, file, env) ==
    Classified(vals, b, file, env, HandlerCourse(file, env.fault),
               Pipeline(vals, b))

\* ------------------------------------------------------------- the display
\* The right-hand panel: the prediction card when a prediction was made, else
\* the hint to fill in the form.
PredictionCard(prediction_made_, pred_, proba_) ==
    IF prediction_made_
    THEN [kind |-> "result",
          text |-> IF pred_ = PyInt(1) THEN "likely to CHURN"
                   ELSE "NOT likely to churn",
          probability |-> proba_.v]
    ELSE [kind |-> "hint", text |-> "click Predict Churn", probability |-> 0]

NotRendered == [kind |-> "not rendered", text |-> "", probability |-> 0]

\* read_all(): the table shown under "Prediction History".
ReadAll(file) == IF file.exists THEN ReadCsv(file) ELSE NoFrame

\* A run in which the button was not clicked skips the handler.
NoClick(b, file) ==
    [bundle |-> b, calls |-> <<>>, raised |-> "none",
     prediction_made |-> FALSE, pred |-> PyNone, proba |-> PyNone,
     X_num |-> NoFrame, row |-> <<>>, info |-> FALSE, file |-> file]

\* The part of the script below the handler.  An exception that escaped the
\* handler has ended the run: nothing below it is rendered.  The history
\* section itself raises when the file cannot be parsed.
Render(vals, h, aborted, viewRaises) ==
    [bundle |-> h.bundle,
     values |-> vals,
     calls |-> h.calls,
     raised |-> IF viewRaises THEN "pd.read_csv" ELSE h.raised,
     prediction_made |-> h.prediction_made,
     pred |-> h.pred,
     proba |-> h.proba,
     X_num |-> h.X_num,
     row |-> h.row,
     info |-> h.info,
     file |-> h.file,
     card |-> IF aborted THEN NotRendered
              ELSE PredictionCard(h.prediction_made, h.pred, h.proba),
     view_kind |-> IF aborted \/ viewRaises THEN "not rendered"
                   ELSE IF h.file.exists THEN "table"
                   ELSE "No predictions made yet."]

Handled(vals, h) ==
    Render(vals, h, h.raised # "none",
           h.raised = "none" /\ h.file.exists /\ ReadCsvRaises(h.file))

FormFilled(b, vals, file, clicked, env) ==
    Handled(vals, IF clicked THEN PredictChurn(vals, b, file, env)
                  ELSE NoClick(b, file))

Loaded(b, file, w, clicked, env) ==
    FormFilled(b, FormValues(b.numeric_cols, w, Len(b.numeric_cols)),
               file, clicked, env)

\* One run of the script, top to bottom.  w is the widget state, clicked
\* whether the run was triggered by the Predict button.
ScriptRun(saved, file, w, clicked, env) ==
    Loaded(LoadBundle(saved), file, w, clicked, env)

\* ------------------------------------------------------------------- state
VARIABLES
    pkl,              \* contents of models/churn_model.pkl
    history_file,     \* prediction_history.csv on disk
    widgets,          \* the session's number_input values, one per column
    model, num_imputer, num_scaler, numeric_cols,   \* the loaded bundle
    values,           \* the dict the form fills
    X_num,            \* the frame the handler assembled in the last run
    calls,            \* the calls the handler made in the last run, in order
    raised,           \* the call whose exception ended the last run, or "none"
    prediction_made, pred, proba,
    row,              \* the history row built in the last run
    info,             \* whether "Prediction saved to history" was shown
    card,             \* the prediction panel as rendered
    view_kind,        \* the history section as rendered: the table of
                      \* ReadAll(history_file), a message, or nothing
    s_pc, s_row, s_hist, s_done   \* concurrent sessions: where each handler
                      \* is in "Save prediction history", its row, the table
                      \* it holds, and how many rows it has saved

vars ==
    <<pkl, history_file, widgets, model, num_imputer, num_scaler, numeric_cols,
      values, X_num, calls, raised, prediction_made, pred, proba, row, info,
      card, view_kind, s_pc, s_row, s_hist, s_done>>

sessVars == <<s_pc, s_row, s_hist, s_done>>

\* Browser sessions whose script runs may overlap.
Sessions == {1, 2}

\* What the user may type into a field, and what the environment may do.
InputChoices == {-250, 0}

ClassifierOutputs == {[label |-> 1, p |-> 82], [label |-> 0, p |-> 10]}

PipelineFaults ==
    {"num_imputer.transform", "num_scaler.transform", "model.predict",
     "model.predict_proba"}

\* The classifier outputs that matter when a call raises: none before
\* model.predict has returned.
OutputsBefore(fault) ==
    IF fault = "model.predict_proba" THEN ClassifierOutputs
    ELSE {[label |-> 0, p |-> 0]}

NoEnv == [fault |-> "none", label |-> 0, p |-> 0, damage |-> "untouched"]

\* The state a script run r leaves, as a relation on the primed variables.
Becomes(r) ==
    /\ model' = r.bundle.model
    /\ num_imputer' = r.bundle.num_imputer
    /\ num_scaler' = r.bundle.num_scaler
    /\ numeric_cols' = r.bundle.numeric_cols
    /\ values' = r.values
    /\ X_num' = r.X_num
    /\ calls' = r.calls
    /\ raised' = r.raised
    /\ prediction_made' = r.prediction_made
    /\ pred' = r.pred
    /\ proba' = r.proba
    /\ row' = r.row
    /\ info' = r.info
    /\ history_file' = r.file
    /\ card' = r.card
    /\ view_kind' = r.view_kind

\* A session opens the page: the first run, with default widget values and no
\* history file yet.
Init ==
    /\ pkl \in Bundles
    /\ widgets = DefaultWidgets(pkl.numeric_cols)
    /\ \E r \in {ScriptRun(pkl, Absent, widgets, FALSE, NoEnv)} :
           /\ model = r.bundle.model
           /\ num_imputer = r.bundle.num_imputer
           /\ num_scaler = r.bundle.num_scaler
           /\ numeric_cols = r.bundle.numeric_cols
           /\ values = r.values
           /\ X_num = r.X_num
           /\ calls = r.calls
           /\ raised = r.raised
           /\ prediction_made = r.prediction_made
           /\ pred = r.pred
           /\ proba = r.proba
           /\ row = r.row
           /\ info = r.info
           /\ history_file = r.file
           /\ card = r.card
           /\ view_kind = r.view_kind
    /\ s_pc = [s \in Sessions |-> "idle"]
    /\ s_row = [s \in Sessions |-> <<>>]
    /\ s_hist = [s \in Sessions |-> NoFrame]
    /\ s_done = [s \in Sessions |-> 0]

\* The user changes field i to v; the widget takes it unless it is below the
\* field's minimum, and the script reruns without a click.
EditInput(i, v) ==
    /\ Accepts(NumberInputArgs(numeric_cols[i]), v)
    /\ widgets' = [widgets EXCEPT ![i] = v]
    /\ UNCHANGED <<pkl, sessVars>>
    /\ Becomes(ScriptRun(pkl, history_file, widgets', FALSE, NoEnv))

RowsOnDisk == Len(history_file.lines)

\* The user clicks Predict Churn and every call succeeds.
ClickPredict(out) ==
    /\ RowsOnDisk < MaxRows
    /\ UNCHANGED <<pkl, widgets, sessVars>>
    /\ Becomes(ScriptRun(pkl, history_file, widgets, TRUE,
                         [fault |-> "none", label |-> out.label, p |-> out.p,
                          damage |-> "untouched"]))

\* The user clicks Predict Churn and a call of the pipeline raises.
ClickPredictFails(fault, out) ==
    /\ UNCHANGED <<pkl, widgets, sessVars>>
    /\ Becomes(ScriptRun(pkl, history_file, widgets, TRUE,
                         [fault |-> fault, label |-> out.label, p |-> out.p,
                          damage |-> "untouched"]))

\* The user clicks Predict Churn and writing the history file fails.
ClickSaveFails(out, damage) ==
    /\ UNCHANGED <<pkl, widgets, sessVars>>
    /\ Becomes(ScriptRun(pkl, history_file, widgets, TRUE,
                         [fault |-> "to_csv", label |-> out.label, p |-> out.p,
                          damage |-> damage]))

Next ==
    \/ \E i \in 1..Len(numeric_cols) :
          \E v \in InputChoices \cup {NumberInputArgs(numeric_cols[i]).value} :
            EditInput(i, v)
    \/ \E out \in ClassifierOutputs : ClickPredict(out)
    \/ \E fault \in PipelineFaults :
          \E out \in OutputsBefore(fault) : ClickPredictFails(fault, out)
    \/ \E out \in ClassifierOutputs, damage \in {"untouched", "truncated"} :
          ClickSaveFails(out, damage)

Spec == Init /\ [][Next]_vars

\* ------------------------------------------ the handler on any input mapping
\* The handler as a function of the mapping it is given: the bundle's
\* feature order and the mapping's insertion order are chosen independently.
MappingNames == {kwAge, kwTenure, nCustomerID}

Orders ==
    {p \in [1..3 -> MappingNames] : \A i, j \in 1..3 : p[i] = p[j] => i = j}

EntryChoices(col) ==
    {NumberInputArgs(col).value}
    \cup {v \in InputChoices : Accepts(NumberInputArgs(col), v)}

Mappings ==
    {[i \in 1..3 |-> <<q[i], PyFloat(f[q[i]])>>] :
        q \in Orders,
        f \in {g \in [MappingNames -> InputChoices \cup {3000, 1200}] :
                  \A c \in MappingNames : g[c] \in EntryChoices(c)}}

InitMapping ==
    /\ pkl \in {BundleOf(p) : p \in Orders}
    /\ values \in Mappings
    /\ widgets = [i \in 1..3 |-> DictGet(values, pkl.numeric_cols[i]).v]
    /\ history_file = Absent
    /\ \E r \in {Handled(values, NoClick(LoadBundle(pkl), Absent))} :
           /\ model = r.bundle.model
           /\ num_imputer = r.bundle.num_imputer
           /\ num_scaler = r.bundle.num_scaler
           /\ numeric_cols = r.bundle.numeric_cols
           /\ X_num = r.X_num
           /\ calls = r.calls
           /\ raised = r.raised
           /\ prediction_made = r.prediction_made
           /\ pred = r.pred
           /\ proba = r.proba
           /\ row = r.row
           /\ info = r.info
           /\ card = r.card
           /\ view_kind = r.view_kind
    /\ s_pc = [s \in Sessions |-> "idle"]
    /\ s_row = [s \in Sessions |-> <<>>]
    /\ s_hist = [s \in Sessions |-> NoFrame]
    /\ s_done = [s \in Sessions |-> 0]

\* The handler runs once on the mapping, and the rest of the script renders.
PredictFromMapping(out) ==
    /\ calls = <<>>
    /\ UNCHANGED <<pkl, widgets, sessVars>>
    /\ Becomes(Handled(values,
                       PredictChurn(values, LoadBundle(pkl), history_file,
                                    [fault |-> "none", label |-> out.label,
                                     p |-> out.p, damage |-> "untouched"])))

NextMapping == \E out \in ClassifierOutputs : PredictFromMapping(out)

SpecAssemble == InitMapping /\ [][NextMapping]_vars

\* ------------------------------------------------------ concurrent sessions
\* Two sessions run the handler at once.  Each statement of "Save prediction
\* history" that touches the file is one step; the form of each session keeps
\* its default values.
runVars ==
    <<pkl, history_file, widgets, model, num_imputer, num_scaler, numeric_cols,
      values, X_num, calls, raised, prediction_made, pred, proba, row, info,
      card, view_kind>>

\* The click: the pipeline runs and the row is built.
Begin(s, out) ==
    /\ s_pc[s] = "idle"
    /\ s_done[s] < MaxClicks
    /\ s_row' = [s_row EXCEPT ![s] =
                    BuildRow(values, PyInt(out.label), PyFloat(out.p))]
    /\ s_pc' = [s_pc EXCEPT ![s] = "os.path.exists"]
    /\ UNCHANGED <<runVars, s_hist, s_done>>

\* if os.path.exists(HISTORY_FILE): the branch is chosen here.
CheckExists(s) ==
    /\ s_pc[s] = "os.path.exists"
    /\ s_pc' = [s_pc EXCEPT ![s] = IF history_file.exists THEN "pd.read_csv"
                                   ELSE "pd.DataFrame"]
    /\ UNCHANGED <<runVars, s_row, s_hist, s_done>>

\* hist = pd.read_csv(...); hist = pd.concat([hist, new row]).
ReadConcat(s) ==
    /\ s_pc[s] = "pd.read_csv"
    /\ s_hist' = [s_hist EXCEPT ![s] = ReadAndConcat(history_file, s_row[s])]
    /\ s_pc' = [s_pc EXCEPT ![s] = "to_csv"]
    /\ UNCHANGED <<runVars, s_row, s_done>>

\* else: hist = pd.DataFrame([row]).
CreateFrame(s) ==
    /\ s_pc[s] = "pd.DataFrame"
    /\ s_hist' = [s_hist EXCEPT ![s] = DataFrameOfDict(s_row[s])]
    /\ s_pc' = [s_pc EXCEPT ![s] = "to_csv"]
    /\ UNCHANGED <<runVars, s_row, s_done>>

\* hist.to_csv(HISTORY_FILE, index=False).
WriteBack(s) ==
    /\ s_pc[s] = "to_csv"
    /\ history_file' = Rewrite(history_file, s_hist[s])
    /\ s_pc' = [s_pc EXCEPT ![s] = "idle"]
    /\ s_done' = [s_done EXCEPT ![s] = @ + 1]
    /\ UNCHANGED <<pkl, widgets, model, num_imputer, num_scaler, numeric_cols,
                   values, X_num, calls, raised, prediction_made, pred, proba,
                   row, info, card, view_kind, s_row, s_hist>>

NextConc ==
    \/ \E s \in Sessions, out \in ClassifierOutputs : Begin(s, out)
    \/ \E s \in Sessions : CheckExists(s)
    \/ \E s \in Sessions : ReadConcat(s)
    \/ \E s \in Sessions : CreateFrame(s)
    \/ \E s \in Sessions : WriteBack(s)

SpecConc == Init /\ [][NextConc]_vars

\* ------------------------------------------------------------------ claims
Keywords ==
    {kwAge, kwTenure, kwUsage, kwSupport, kwDelay, kwSpend, kwInteraction}

HasKeyword(col) == \E kw \in Keywords : Contains(kw, col)

Stored == ReadAll(history_file)

StoredNext == ReadAll(history_file')

\* C1: a run that saved its prediction leaves a table exactly one row longer
\* than before, and the last row read back equals the row it built, field
\* for field.
C1_AppendMonotonic ==
    [][info' =>
        /\ Len(StoredNext.data) = Len(Stored.data) + 1
        /\ RowFields(StoredNext, Len(StoredNext.data)) = DictFields(row')]_vars

\* C1 witness: a second row was appended, holding a negative value and a
\* two-digit fraction.
C1_Witness ==
    /\ info
    /\ RowsOnDisk = 2
    /\ <<nCustomerID, -250>> \in DictFields(row)
    /\ <<colChurnProbability, 82>> \in DictFields(row)

\* C2 (as claimed): when every pipeline call returned and only the write of
\* the history file failed, the prediction card with the label and the
\* probability is shown.
C2_ShownDespiteWriteFailure ==
    raised = "to_csv" => card.kind = "result" /\ card.probability = proba.v

\* C3: a run ended by the imputer, the scaler, predict or predict_proba
\* leaves the history file exactly as it was.
C3_FailedAttemptPersistsNothing ==
    [][raised' \in PipelineFaults => history_file' = history_file]_vars

\* C3 witness: predict returned, predict_proba raised, and a row saved
\* earlier is still the only one on disk.
C3_Witness ==
    /\ raised = "model.predict_proba"
    /\ pred = PyInt(1)
    /\ RowsOnDisk = 1

\* C4: a successful append leaves every row that was readable before it
\* unchanged and in place: the old table is a prefix of the new one.
C4_EarlierRowsUnchanged ==
    [][info' =>
        /\ Len(StoredNext.data) >= Len(Stored.data)
        /\ \A i \in 1..Len(Stored.data) :
              RowFields(StoredNext, i) = RowFields(Stored, i)]_vars

\* C4 witness: two different rows on disk after a successful append.
C4_Witness ==
    /\ info
    /\ RowsOnDisk = 2
    /\ RowFields(Stored, 1) # RowFields(Stored, 2)

\* C6: the first successful prediction creates the file with the header
\* feature_order, Prediction, Churn_Probability and one data row; an append
\* to an existing file keeps its column set.
C6_HeaderAndStableColumns ==
    [][info' =>
        /\ ~history_file.exists =>
              /\ history_file'.header =
                    numeric_cols \o <<colPrediction, colChurnProbability>>
              /\ Len(history_file'.lines) = 1
        /\ history_file.exists =>
              {history_file'.header[j] : j \in 1..Len(history_file'.header)} =
              {history_file.header[j] : j \in 1..Len(history_file.header)}]_vars

\* C6 witness: a two-feature bundle whose file was created and appended to.
C6_Witness ==
    /\ info
    /\ Len(numeric_cols) = 2
    /\ RowsOnDisk = 2

C8_BundleReadOnly ==
    [][<<model, num_imputer, num_scaler, numeric_cols>>' =
       <<model, num_imputer, num_scaler, numeric_cols>>]_vars

\* C8 witness: both transforms were called, the write failed, and the bundle
\* is still what the pickle holds.
C8_Witness ==
    /\ raised = "to_csv"
    /\ RowsOnDisk = 1
    /\ <<model, num_imputer, num_scaler, numeric_cols>> =
       <<pkl.model, pkl.num_imputer, pkl.num_scaler, pkl.numeric_cols>>

CallAt(fn) == CHOOSE i \in 1..Len(calls) : calls[i].fn = fn

WasCalled(fn) == \E i \in 1..Len(calls) : calls[i].fn = fn

\* C10: the imputer is called first, on the assembled frame; the scaler is
\* called on the imputer's output; predict and predict_proba are both called
\* on the scaler's output relabelled with numeric_cols; and the history file
\* is touched only after both classifier calls.
C10_FixedOrder ==
    /\ Len(calls) > 0 =>
          calls[1].fn = "num_imputer.transform" /\ calls[1].arg = X_num
    /\ WasCalled("num_scaler.transform") =>
          /\ CallAt("num_scaler.transform") = 2
          /\ calls[2].arg = [by |-> "num_imputer", of |-> calls[1].arg]
    /\ \A i \in 1..Len(calls) :
          calls[i].fn \in {"model.predict", "model.predict_proba"} =>
              /\ i > 2
              /\ calls[i].arg =
                    [array |-> [by |-> "num_scaler", of |-> calls[2].arg],
                     columns |-> numeric_cols]
    /\ \A i \in 1..Len(calls) :
          calls[i].fn \in {"os.path.exists", "pd.read_csv", "to_csv"} =>
              /\ WasCalled("model.predict")
              /\ WasCalled("model.predict_proba")
              /\ CallAt("model.predict") < CallAt("model.predict_proba")
              /\ CallAt("model.predict_proba") < i

\* C10 witness: a run that made all seven calls and saved.
C10_Witness ==
    /\ Len(calls) = 7
    /\ info

\* The value the mapping holds for a column, whatever its insertion order.
Entered(col) ==
    CHOOSE v \in {f[2] : f \in DictFields(values)} :
        <<col, v>> \in DictFields(values)

\* C5: whatever the insertion order of the mapping, the frame given to the
\* imputer has its columns in numeric_cols order, each holding the value
\* entered under that name; the scaler and the classifier are given what was
\* derived from that frame, the classifier's input labelled with numeric_cols.
C5_OrderPreserved ==
    calls # <<>> =>
        /\ X_num.columns = numeric_cols
        /\ \A i \in 1..Len(numeric_cols) :
              X_num.data[1][i] = Entered(numeric_cols[i])
        /\ calls[1].arg = X_num
        /\ calls[2].arg.of = X_num
        /\ \A i \in {3, 4} :
              /\ calls[i].arg.columns = numeric_cols
              /\ calls[i].arg.array.of.of = X_num

\* C5 witness: the handler ran on a mapping whose insertion order is not the
\* feature order and whose three values differ.
C5_Witness ==
    /\ calls # <<>>
    /\ DictKeys(values) # numeric_cols
    /\ Cardinality({f[2] : f \in DictFields(values)}) = 3

====
